---- MODULE Spec2Model ----
(***************************************************************************)
(* Model of cli/src/completions.rs of probe-rs: the `complete` entry point *)
(* (generate_completion), the two listers (list_chips, list_probes) and    *)
(* the rewriting pass over the generated completion script                 *)
(* (inject_dynamic_completions).                                           *)
(*                                                                         *)
(* Text written by the listers is a sequence of one-character strings.     *)
(* A completion script is a sequence of lexemes (strings); its text is the *)
(* concatenation of the lexemes, and the regular expressions of the        *)
(* injector are matched lexeme by lexeme, at any position.                 *)
(***************************************************************************)
EXTENDS Integers, Sequences, FiniteSets

VARIABLES pc, shell, kind, input, name, baseline, families, probes,
          script, output, stdout, result, effects

vars == <<pc, shell, kind, input, name, baseline, families, probes,
          script, output, stdout, result, effects>>

\* ---------------------------------------------------------------- bounds

MaxFamilies == 2
MaxVariants == 2
MaxProbes == 2
MaxSegs == 3

SeqsUpTo(S, n) == UNION {[1..k -> S] : k \in 0..n}

\* Option<T>: None is the empty sequence, Some(v) is <<v>>.
NoneOpt == <<>>

Some(v) == <<v>>

\* ------------------------------------------------------------ input sets

\* clap_complete::Shell
Shells == {"Bash", "Elvish", "Fish", "PowerShell", "Zsh"}

\* crate::CompleteKind
Kinds == {"GenerateScript", "ProbeList", "ChipList"}

Prefixes == {<<>>, <<"S">>, <<"s", "t">>, <<"S", "T", "M">>}

ChipNames == {<<"S", "T">>, <<"s", "t">>}

Families == SeqsUpTo(ChipNames, MaxVariants)

Catalogs == SeqsUpTo(Families, MaxFamilies)

STLinkId == <<"S", "T", "L", "i", "n", "k">>

VendorIds == {1155, 10}

ProductIds == {14152, 65535, 0}

SerialNumbers == {NoneOpt, Some(<<"5", "A">>)}

ProbeTypes == {"StLink", "CmsisDap"}

ProbeInfos ==
    {[vendor_id |-> v, product_id |-> p, serial_number |-> s,
      identifier |-> IF t = "StLink" THEN STLinkId ELSE <<"s", "t">>,
      probe_type |-> t] :
        v \in VendorIds, p \in ProductIds, s \in SerialNumbers, t \in ProbeTypes}

ProbeLists == SeqsUpTo(ProbeInfos, MaxProbes)

\* After how many successful writes the sink starts to fail (-1: never).
SinkLimits == {-1, 0, 1}

Argv0s == {<<"probe-rs-cli">>,
           <<"/", "usr", "/", "bin", "/", "probe-rs">>,
           <<".", "/", "probe(rs">>}

\* ------------------------------------------------------------------ text

\* starts_with with its arguments exchanged.
StartsWithSwapped(s, p) ==
    /\ Len(s) <= Len(p)
    /\ SubSeq(p, 1, Len(s)) = s

\* str::starts_with
StartsWith(s, p) ==
    /\ Len(p) <= Len(s)
    /\ SubSeq(s, 1, Len(p)) = p

HexDigits == <<"0", "1", "2", "3", "4", "5", "6", "7", "8", "9",
               "a", "b", "c", "d", "e", "f">>

RECURSIVE ToHex(_)
ToHex(n) ==
    IF n < 16 THEN <<HexDigits[n + 1]>>
    ELSE ToHex(n \div 16) \o <<HexDigits[(n % 16) + 1]>>

PadLeft(s, w, c) ==
    IF Len(s) >= w THEN s ELSE [i \in 1..(w - Len(s)) |-> c] \o s

\* {:x}
HexUnpadded(n) == ToHex(n)

\* {:04x}
Hex04(n) == PadLeft(ToHex(n), 4, "0")

\* {:?} of the probe type: the variant's name
DebugProbeType(t) ==
    CASE t = "StLink" -> <<"S", "t", "L", "i", "n", "k">>
      [] t = "CmsisDap" -> <<"C", "m", "s", "i", "s", "D", "a", "p">>

\* ------------------------------------------------------------- the sink

\* impl Write: the bytes written so far, and whether a write has failed.
NewSink(limit) == [buf |-> <<>>, writes |-> 0, limit |-> limit, failed |-> FALSE]

\* writeln!(f, "{}", text)?
WriteLn(f, text) ==
    IF f.limit >= 0 /\ f.writes >= f.limit
    THEN [f EXCEPT !.failed = TRUE]
    ELSE [f EXCEPT !.buf = @ \o text \o <<"\n">>, !.writes = @ + 1]

\* ---------------------------------------------------------- the listers

RECURSIVE ListVariants(_, _, _)
ListVariants(f, variants, starts_with) ==
    IF variants = <<>> \/ f.failed THEN f
    ELSE LET variant == Head(variants)
             f1 == IF StartsWith(variant, starts_with)
                   THEN WriteLn(f, variant)
                   ELSE f
         IN  ListVariants(f1, Tail(variants), starts_with)

RECURSIVE ListFamilies(_, _, _)
ListFamilies(f, fams, starts_with) ==
    IF fams = <<>> \/ f.failed THEN f
    ELSE ListFamilies(ListVariants(f, Head(fams), starts_with),
                      Tail(fams), starts_with)

\* list_chips: cat is the result of probe_rs::config::families().
list_chips(f, cat, starts_with) ==
    IF ~cat.ok THEN [sink |-> f, res |-> "FailedToReadFamilies"]
    ELSE LET g == ListFamilies(f, cat.val, starts_with)
         IN  [sink |-> g, res |-> IF g.failed THEN "IoError" ELSE "Ok"]

\* map_or("", |v| format!("\\:{}", v))
SerialSegment(sn) ==
    IF sn = NoneOpt THEN <<>> ELSE <<"\\", ":">> \o sn[1]

\* The line without the backslashes.
ProbeLineUnescaped(probe) ==
    Hex04(probe.vendor_id) \o <<":">> \o Hex04(probe.product_id)
        \o (IF probe.serial_number = NoneOpt THEN <<>>
            ELSE <<":">> \o probe.serial_number[1])
        \o <<"B", "[">> \o probe.identifier \o <<" ", "[">>
        \o DebugProbeType(probe.probe_type) \o <<"]", " ", "B", "]">>

\* "{vid:04x}\\:{pid:04x}{sn}B[{id} \\[{typ:?}\\] B]"
ProbeLine(probe) ==
    Hex04(probe.vendor_id) \o <<"\\", ":">> \o Hex04(probe.product_id)
        \o SerialSegment(probe.serial_number)
        \o <<"B", "[">> \o probe.identifier \o <<" ", "\\", "[">>
        \o DebugProbeType(probe.probe_type) \o <<"\\", "]", " ", "B", "]">>

RECURSIVE ListProbeLoop(_, _, _)
ListProbeLoop(f, ps, starts_with) ==
    IF ps = <<>> \/ f.failed THEN f
    ELSE LET probe == Head(ps)
             f1 == IF StartsWith(probe.identifier, starts_with)
                   THEN WriteLn(f, ProbeLine(probe))
                   ELSE f
         IN  ListProbeLoop(f1, Tail(ps), starts_with)

\* list_probes: ps is the result of Probe::list_all().
list_probes(f, ps, starts_with) ==
    LET g == ListProbeLoop(f, ps, starts_with)
    IN  [sink |-> g, res |-> IF g.failed THEN "IoError" ELSE "Ok"]

\* ------------------------------------------- regular expressions on lexemes

\* A pattern is a sequence of elements [tok, star, grp]: the lexeme it matches,
\* whether it repeats (zero or more, greedy), and its capture group (0: none).
Lit(tok, grp) == [tok |-> tok, star |-> FALSE, grp |-> grp]

Star(tok, grp) == [tok |-> tok, star |-> TRUE, grp |-> grp]

Lits(toks, grp) == [i \in 1..Len(toks) |-> Lit(toks[i], grp)]

Capture(m, grp, tok) ==
    IF grp = 1 THEN [m EXCEPT !.g1 = @ \o <<tok>>]
    ELSE IF grp = 2 THEN [m EXCEPT !.g2 = @ \o <<tok>>]
    ELSE m

\* The match of pat that starts at position i of s, if there is one.
RECURSIVE MatchFrom(_, _, _, _)
MatchFrom(s, i, pat, m) ==
    IF pat = <<>> THEN [m EXCEPT !.ok = TRUE, !.end = i]
    ELSE LET e == Head(pat)
             hit == i <= Len(s) /\ s[i] = e.tok
         IN  IF e.star
             THEN IF hit THEN MatchFrom(s, i + 1, pat, Capture(m, e.grp, s[i]))
                  ELSE MatchFrom(s, i, Tail(pat), m)
             ELSE IF hit
                  THEN MatchFrom(s, i + 1, Tail(pat), Capture(m, e.grp, s[i]))
                  ELSE [m EXCEPT !.ok = FALSE]

NoMatch == [ok |-> FALSE, end |-> 0, g1 |-> <<>>, g2 |-> <<>>]

MatchAt(s, i, pat) == MatchFrom(s, i, pat, NoMatch)

\* Regex::is_match
IsMatch(s, pat) == \E i \in 1..Len(s) : MatchAt(s, i, pat).ok

\* The replacement string with its references expanded: $$ is a dollar sign,
\* $1, ${1} and $2 are the capture groups, all else is literal.
ExpandOne(t, m) ==
    IF t = "$$" THEN <<"$">>
    ELSE IF t \in {"$1", "${1}"} THEN m.g1
    ELSE IF t = "$2" THEN m.g2
    ELSE <<t>>

RECURSIVE ExpandRange(_, _, _, _)
ExpandRange(rep, m, lo, hi) ==
    IF lo > hi THEN <<>>
    ELSE IF lo = hi THEN ExpandOne(rep[lo], m)
    ELSE LET mid == (lo + hi) \div 2
         IN  ExpandRange(rep, m, lo, mid) \o ExpandRange(rep, m, mid + 1, hi)

Expand(rep, m) == ExpandRange(rep, m, 1, Len(rep))

\* Regex::replace_all: leftmost matches, not overlapping, from position i on.
RECURSIVE ReplaceFrom(_, _, _, _)
ReplaceFrom(s, i, pat, rep) ==
    LET starts == {j \in i..Len(s) : MatchAt(s, j, pat).ok}
    IN  IF starts = {} THEN SubSeq(s, i, Len(s))
        ELSE LET j == CHOOSE x \in starts : \A y \in starts : x <= y
                 m == MatchAt(s, j, pat)
             IN  SubSeq(s, i, j - 1) \o Expand(rep, m)
                     \o ReplaceFrom(s, m.end, pat, rep)

ReplaceAll(s, pat, rep) == ReplaceFrom(s, 1, pat, rep)

\* Lexemes that make a pattern built from them fail to compile (an unclosed
\* group).
RegexInvalid == {"probe(rs"}

\* Regex::new(..)?
RegexCompiles(toks) == \A i \in 1..Len(toks) : toks[i] \notin RegexInvalid

\* ------------------------------------------------------------ the injector

\* r#"(_{name} "\$@")"#
FallbackPattern(n) == Lits(<<"_">> \o n \o <<" ", "\"$@\"">>, 1)

ChipsListFn ==
    <<"(( $+functions[_probe-rs-cli_chips_list] )) ||\n",
      "_probe-rs-cli_chips_list", "() {\n",
      "    array_of_lines=(\"", "$$", "{(@f)", "$$", "(",
      "probe-rs-cli", " ", "complete", " ", "zsh", " ", "chip-list", " ", "\"\"",
      " ", ")", "}\")\n",
      "    _values 'flags' ", "$$", "array_of_lines", "\n",
      "}\n">>

ProbeListFn ==
    <<"(( $+functions[_probe-rs-cli_probe_list] )) ||\n",
      "_probe-rs-cli_probe_list", "() {\n",
      "    array_of_lines=(\"", "$$", "{(@f)", "$$", "(",
      "probe-rs-cli", " ", "complete", " ", "zsh", " ", "probe-list", " ", "\"\"",
      " ", ")", "}\")\n",
      "    if [ ", "$$", "{#array_of_lines[@]}", " -eq 0", " ]; then\n",
      "        _values 'flags' ", "$$", "array_of_lines", "\n",
      "    fi\n",
      "}\n">>

\* The `inject` literal, down to the indentation before its closing quote.
ZshInject == ChipsListFn \o ProbeListFn \o <<"            ">>

\* format!("{inject}\n$1")
FallbackReplacement == ZshInject \o <<"\n", "$1">>

\* "(PROBE_SELECTOR: )"
ProbeSelectorPattern == Lits(<<"PROBE_SELECTOR", ": ">>, 1)

ProbeSelectorReplacement == <<"PROBE_SELECTOR", ":", "_probe-rs-cli_probe_list">>

\* "(CHIP: )"
ChipPattern == Lits(<<"CHIP", ": ">>, 1)

ChipReplacement == <<"CHIP", ":", "_probe-rs-cli_chips_list">>

\* r#"(?s)(\-\-chip\)\n *COMPREPLY=\(\$\()compgen \-f( "\$\{cur\}"\)\))"#, and
\* the same with --probe
BashPattern(flag) ==
    <<Lit(flag, 1), Lit("\n", 1), Star(" ", 1)>>
        \o Lits(<<"COMPREPLY=(", "$", "(">>, 1)
        \o Lits(<<"compgen", " ", "-f">>, 0)
        \o Lits(<<" ", "\"${cur}\"", ")", ")">>, 2)

\* r#"${1}probe-rs-cli complete chip-list $2"#, and the same with probe-list
BashReplacement(list) ==
    <<"${1}", "probe-rs-cli", " ", "complete", " ", list, " ", "$2">>

inject_zsh(n, s) ==
    IF ~RegexCompiles(<<"_">> \o n \o <<" ", "\"$@\"">>)
    THEN [script |-> s, res |-> "RegexError"]
    ELSE LET s1 == ReplaceAll(s, FallbackPattern(n), FallbackReplacement)
             s2 == ReplaceAll(s1, ProbeSelectorPattern, ProbeSelectorReplacement)
             s3 == ReplaceAll(s2, ChipPattern, ChipReplacement)
         IN  [script |-> s3, res |-> "Ok"]

inject_bash(s) ==
    LET s1 == ReplaceAll(s, BashPattern("--chip)"), BashReplacement("chip-list"))
        s2 == ReplaceAll(s1, BashPattern("--probe)"), BashReplacement("probe-list"))
    IN  [script |-> s2, res |-> "Ok"]

inject_dynamic_completions(sh, n, s) ==
    IF sh = "Zsh" THEN inject_zsh(n, s)
    ELSE IF sh = "Bash" THEN inject_bash(s)
    ELSE [script |-> s, res |-> "Ok"]

\* ------------------------------------------- the generated baseline scripts

\* What clap_complete::generate writes for the two shells is made of pieces
\* like these, in any number and order.
ZshSegments(n) ==
    {<<"_">> \o n \o <<" ", "\"$@\"", "\n">>,
     <<"'--chip=[]", ":", "CHIP", ": ", "' \\\n">>,
     <<"'--probe=[]", ":", "PROBE_SELECTOR", ": ", "' \\\n">>,
     <<"'--target=[]", ":", "TARGET_", "CHIP", ": ", "' \\\n">>,
     <<"'--speed=[]", ":", "SPEED", ": ", "' \\\n">>}

BashBlock(flag) ==
    <<flag, "\n", " ", " ", "COMPREPLY=(", "$", "(", "compgen", " ", "-f",
      " ", "\"${cur}\"", ")", ")", "\n", "return 0\n">>

BashSegments ==
    {BashBlock("--chip)"), BashBlock("--probe)"), BashBlock("--elf)"),
     <<"--speed)", "\n", "COMPREPLY=(", "\"${cur}\"", ")", "\n", "return 0\n">>}

RECURSIVE Flatten(_)
Flatten(ss) == IF Len(ss) = 0 THEN <<>> ELSE Head(ss) \o Flatten(Tail(ss))

Scripts(sh, n) ==
    LET segs == IF sh = "Zsh" THEN ZshSegments(n) ELSE BashSegments
    IN  {Flatten(ss) : ss \in SeqsUpTo(segs, MaxSegs)}

\* name.to_str().unwrap().split('/').last().unwrap()
RECURSIVE LastComponent(_)
LastComponent(a) ==
    IF \E i \in 1..Len(a) : a[i] = "/"
    THEN LastComponent(Tail(a))
    ELSE a

\* ---------------------------------------------------------- the dispatcher

\* The check with Fish let through.
SupportedOrFish(sh) == sh \in {"Zsh", "Bash", "Fish"}

\* matches!(shell, Shell::Zsh | Shell::Bash)
Supported(sh) == sh \in {"Zsh", "Bash"}

\* The arm's error dropped instead of returned.
AfterArmIgnored(res) == "print"

\* `?`: an arm that fails returns from generate_completion
AfterArm(res) == IF res = "Ok" THEN "print" ELSE "done"

Init ==
    /\ pc = "start"
    /\ shell \in Shells
    /\ kind \in Kinds
    /\ input \in Prefixes
    /\ name = <<>>
    /\ baseline = <<>>
    /\ families = [ok |-> TRUE, val |-> <<>>]
    /\ probes = <<>>
    /\ script = <<>>
    /\ output = <<>>
    /\ stdout = <<>>
    /\ result = "Running"
    /\ effects = <<>>

\* if !matches!(shell, Shell::Zsh | Shell::Bash) { bail!(..) }
CheckShell ==
    /\ pc = "start"
    /\ IF Supported(shell)
       THEN /\ pc' = kind
            /\ result' = result
       ELSE /\ pc' = "done"
            /\ result' = "UnsupportedShell"
    /\ UNCHANGED <<shell, kind, input, name, baseline, families, probes,
                   script, output, stdout, effects>>

\* GenerateScript: the name from argv[0]
ReadName ==
    /\ pc = "GenerateScript"
    /\ \E argv0 \in Argv0s : name' = LastComponent(argv0)
    /\ effects' = Append(effects, "args_os")
    /\ pc' = "generate"
    /\ UNCHANGED <<shell, kind, input, baseline, families, probes,
                   script, output, stdout, result>>

\* GenerateScript: generate(shell, &mut command, name, &mut script)
Generate ==
    /\ pc = "generate"
    /\ \E s \in Scripts(shell, name) :
          /\ baseline' = s
          /\ script' = s
    /\ effects' = Append(effects, "generate")
    /\ pc' = "inject"
    /\ UNCHANGED <<shell, kind, input, name, families, probes,
                   output, stdout, result>>

\* GenerateScript: inject_dynamic_completions(shell, name, &mut script)?; script
Inject ==
    /\ pc = "inject"
    /\ LET r == inject_dynamic_completions(shell, name, script)
       IN  /\ script' = r.script
           /\ output' = IF r.res = "Ok" THEN r.script ELSE output
           /\ result' = IF r.res = "Ok" THEN result ELSE r.res
           /\ pc' = AfterArm(r.res)
    /\ UNCHANGED <<shell, kind, input, name, baseline, families, probes,
                   stdout, effects>>

\* ProbeList: list_probes(&mut script, input)?
ListProbes ==
    /\ pc = "ProbeList"
    /\ \E ps \in ProbeLists, limit \in SinkLimits :
          LET r == list_probes(NewSink(limit), ps, input)
          IN  /\ probes' = ps
              /\ script' = r.sink.buf
              /\ output' = IF r.res = "Ok" THEN r.sink.buf ELSE output
              /\ result' = IF r.res = "Ok" THEN result ELSE r.res
              /\ pc' = AfterArm(r.res)
    /\ effects' = Append(effects, "list_all")
    /\ UNCHANGED <<shell, kind, input, name, baseline, families, stdout>>

\* ChipList: list_chips(&mut script, input)?
ListChips ==
    /\ pc = "ChipList"
    /\ \E cat \in {[ok |-> FALSE, val |-> <<>>]}
                      \cup {[ok |-> TRUE, val |-> c] : c \in Catalogs},
          limit \in SinkLimits :
          LET r == list_chips(NewSink(limit), cat, input)
          IN  /\ families' = cat
              /\ script' = r.sink.buf
              /\ output' = IF r.res = "Ok" THEN r.sink.buf ELSE output
              /\ result' = IF r.res = "Ok" THEN result ELSE r.res
              /\ pc' = AfterArm(r.res)
    /\ effects' = Append(effects, "families")
    /\ UNCHANGED <<shell, kind, input, name, baseline, probes, stdout>>

\* println!("{output}"); Ok(())
PrintOutput ==
    /\ pc = "print"
    /\ stdout' = Append(stdout, output \o <<"\n">>)
    /\ effects' = Append(effects, "println")
    /\ result' = "Ok"
    /\ pc' = "done"
    /\ UNCHANGED <<shell, kind, input, name, baseline, families, probes,
                   script, output>>

Next ==
    \/ CheckShell
    \/ ReadName
    \/ Generate
    \/ Inject
    \/ ListProbes
    \/ ListChips
    \/ PrintOutput

Spec == Init /\ [][Next]_vars

\* ------------------------------------------------------------- properties

IsBytePrefix(p, s) ==
    /\ Len(p) <= Len(s)
    /\ \A i \in 1..Len(p) : s[i] = p[i]

RECURSIVE JoinLines(_)
JoinLines(ls) ==
    IF Len(ls) = 0 THEN <<>> ELSE Head(ls) \o <<"\n">> \o JoinLines(Tail(ls))

RECURSIVE SplitLines(_)
SplitLines(buf) ==
    LET nl == {i \in 1..Len(buf) : buf[i] = "\n"}
    IN  IF nl = {} THEN (IF Len(buf) = 0 THEN <<>> ELSE <<buf>>)
        ELSE LET j == CHOOSE x \in nl : \A y \in nl : x <= y
             IN  <<SubSeq(buf, 1, j - 1)>> \o SplitLines(SubSeq(buf, j + 1, Len(buf)))

\* The arm of the request's kind has returned Ok.
ArmOk(k) ==
    /\ kind = k
    /\ \/ pc = "print"
       \/ pc = "done" /\ result = "Ok"

MatchingVariants == SelectSeq(Flatten(families.val), LAMBDA v : IsBytePrefix(input, v))

\* C1: a successful list_chips(p) writes one line per variant whose name starts
\* with p, byte for byte, no line for any other variant, in the catalog's order
\* (families, then the variants of each), duplicates kept; a prefix that
\* matches no variant gives an empty output.
C1_ChipLines ==
    ArmOk("ChipList") => script = JoinLines(MatchingVariants)

C1_Witness ==
    /\ ArmOk("ChipList")
    /\ input = <<"S">>
    /\ families.val = << <<<<"s", "t">>, <<"S", "T">>>>, <<<<"S", "T">>>> >>
    /\ script = <<"S", "T", "\n", "S", "T", "\n">>

LowerHex == <<"0", "1", "2", "3", "4", "5", "6", "7", "8", "9",
              "a", "b", "c", "d", "e", "f">>

IsLowerHex4(d) ==
    /\ Len(d) = 4
    /\ \A i \in 1..4 : \E k \in 1..16 : LowerHex[k] = d[i]

DigitValue(c) == (CHOOSE k \in 1..16 : LowerHex[k] = c) - 1

HexValue(d) ==
    DigitValue(d[1]) * 4096 + DigitValue(d[2]) * 256
        + DigitValue(d[3]) * 16 + DigitValue(d[4])

\* The line is: 4 lowercase hex digits of the vendor id, the escaped colon, 4
\* lowercase hex digits of the product id, the serial segment if and only if
\* there is a serial number, then the bracketed identifier and type.
MatchesTemplate(line, probe) ==
    LET sn == probe.serial_number
        snLen == IF sn = NoneOpt THEN 0 ELSE 2 + Len(sn[1])
        rest == <<"B", "[">> \o probe.identifier \o <<" ", "\\", "[">>
                    \o DebugProbeType(probe.probe_type)
                    \o <<"\\", "]", " ", "B", "]">>
    IN  /\ Len(line) = 10 + snLen + Len(rest)
        /\ IsLowerHex4(SubSeq(line, 1, 4))
        /\ HexValue(SubSeq(line, 1, 4)) = probe.vendor_id
        /\ SubSeq(line, 5, 6) = <<"\\", ":">>
        /\ IsLowerHex4(SubSeq(line, 7, 10))
        /\ HexValue(SubSeq(line, 7, 10)) = probe.product_id
        /\ sn # NoneOpt => SubSeq(line, 11, 10 + snLen) = <<"\\", ":">> \o sn[1]
        /\ SubSeq(line, 11 + snLen, Len(line)) = rest

MatchingProbes == SelectSeq(probes, LAMBDA q : IsBytePrefix(input, q.identifier))

\* C2: list_probes(p) emits a line only for the probes whose identifier starts
\* with p, and every line has the vendor and product ids as exactly 4 lowercase
\* hex digits (ids below 0x1000 included), a serial segment if and only if the
\* probe has a serial number, then the bracketed identifier and probe type.
C2_ProbeLines ==
    ArmOk("ProbeList") =>
        LET lines == SplitLines(script)
        IN  /\ Len(lines) = Len(MatchingProbes)
            /\ \A k \in 1..Len(lines) : MatchesTemplate(lines[k], MatchingProbes[k])

C2_Witness ==
    /\ ArmOk("ProbeList")
    /\ input = <<"s", "t">>
    /\ Len(probes) = 2
    /\ probes[1].probe_type = "StLink"
    /\ probes[2].probe_type = "CmsisDap"
    /\ probes[2].vendor_id = 10
    /\ probes[2].product_id = 0
    /\ probes[2].serial_number # NoneOpt
    /\ Len(SplitLines(script)) = 1

STLinkProbe ==
    [vendor_id |-> 1155, product_id |-> 14152, serial_number |-> NoneOpt,
     identifier |-> STLinkId, probe_type |-> "StLink"]

Scenario ==
    /\ ArmOk("ProbeList")
    /\ input = <<>>
    /\ probes = <<STLinkProbe>>

\* C3 as stated: the scenario's line is 0483:3748B[STLink [StLink] B], with a
\* plain colon between the ids and plain brackets around the type.
C3_PlainLine ==
    Scenario =>
        script = <<"0", "4", "8", "3", ":", "3", "7", "4", "8", "B", "[",
                   "S", "T", "L", "i", "n", "k", " ", "[",
                   "S", "t", "L", "i", "n", "k", "]", " ", "B", "]", "\n">>

\* C3, amended: the scenario's line is 0483\:3748B[STLink \[StLink\] B]: the
\* colon between the ids and the brackets around the type are escaped with a
\* backslash; there is no serial segment.
C3_EscapedLine ==
    Scenario =>
        script = <<"0", "4", "8", "3", "\\", ":", "3", "7", "4", "8", "B", "[",
                   "S", "T", "L", "i", "n", "k", " ", "\\", "[",
                   "S", "t", "L", "i", "n", "k", "\\", "]", " ", "B", "]", "\n">>

C3_Witness == Scenario /\ pc = "done"

\* C4: when the baseline script lacks one of its shell's anchors, injection
\* ends in an error; it never returns Ok.
HasAllAnchors ==
    IF shell = "Zsh"
    THEN /\ IsMatch(baseline, FallbackPattern(name))
         /\ IsMatch(baseline, ProbeSelectorPattern)
         /\ IsMatch(baseline, ChipPattern)
    ELSE /\ IsMatch(baseline, BashPattern("--chip)"))
         /\ IsMatch(baseline, BashPattern("--probe)"))

C4_MissingAnchorIsError ==
    (kind = "GenerateScript" /\ pc \in {"print", "done"} /\ ~HasAllAnchors)
        => result \notin {"Running", "Ok"}

\* C5: a request for a shell other than Bash and Zsh ends in the
\* unsupported-shell error whatever its kind, before the program's arguments,
\* the generator, the catalog or the probes are read, and with nothing written
\* to standard output.
C5_UnsupportedShellRejected ==
    shell \notin {"Bash", "Zsh"} =>
        /\ pc \in {"start", "done"}
        /\ pc = "done" => result = "UnsupportedShell"
        /\ effects = <<>>
        /\ script = <<>>
        /\ stdout = <<>>

C5_Witness ==
    /\ pc = "done"
    /\ shell = "Fish"
    /\ kind = "GenerateScript"
    /\ result = "UnsupportedShell"
    /\ stdout = <<>>

\* The words of the command that starts at position i, up to the closing
\* parenthesis of its command substitution.
CommandWords(s, i) ==
    LET ends == {j \in i..Len(s) : s[j] = ")"}
        last == IF ends = {} THEN Len(s)
                ELSE (CHOOSE x \in ends : \A y \in ends : x <= y) - 1
    IN  SelectSeq(SubSeq(s, i, last), LAMBDA w : w # " ")

HasWord(c, w) == \E i \in 1..Len(c) : c[i] = w

Substitutions(s) == {i \in 1..(Len(s) - 1) : s[i] = "$" /\ s[i + 1] = "("}

\* The commands a script runs to call back into the program's `complete`.
Callbacks(s) ==
    {c \in {CommandWords(s, i + 2) : i \in Substitutions(s)} : HasWord(c, "complete")}

Injected == kind = "GenerateScript" /\ pc = "done" /\ result = "Ok"

\* C6: the callbacks injected into the script invoke the program under the
\* name it was invoked with, the last path component of argv[0].
C6_CallbacksUseInvocationName ==
    Injected => \A c \in Callbacks(output) : <<c[1]>> = name

ShellArg == IF shell = "Zsh" THEN "zsh" ELSE "bash"

\* The callback that follows the first occurrence of a lexeme.
CallbacksAfter(s, marker) ==
    {CommandWords(s, i + 2) :
        i \in {j \in Substitutions(s) :
                 \E m \in 1..j :
                    /\ s[m] = marker
                    /\ \A x \in (m + 1)..(j - 1) : x \notin Substitutions(s)
                    /\ HasWord(CommandWords(s, j + 2), "complete")}}

ChipMarker == IF shell = "Zsh" THEN "_probe-rs-cli_chips_list" ELSE "--chip)"

ProbeMarker == IF shell = "Zsh" THEN "_probe-rs-cli_probe_list" ELSE "--probe)"

\* C7: every injected callback has the shape <prog> complete <shell> <kind>
\* <prefix>: the shell is the one the script was generated for, the kind is
\* chip-list for the chip argument and probe-list for the probe selector.
C7_CallbackShape ==
    Injected =>
        /\ \A c \in Callbacks(output) :
              /\ Len(c) = 5
              /\ c[2] = "complete"
              /\ c[3] = ShellArg
              /\ c[4] \in {"chip-list", "probe-list"}
        /\ \A c \in CallbacksAfter(output, ChipMarker) : HasWord(c, "chip-list")
        /\ \A c \in CallbacksAfter(output, ProbeMarker) : HasWord(c, "probe-list")

\* The injection that rewrites only the anchors that are whole tokens: a type
\* tag is an anchor only right after the colon that separates the fields of
\* an argument.
AnchoredInjection(sh, n, s) ==
    IF sh = "Zsh"
    THEN LET s1 == ReplaceAll(s, FallbackPattern(n), FallbackReplacement)
             s2 == ReplaceAll(s1, Lits(<<":", "PROBE_SELECTOR", ": ">>, 1),
                              <<":">> \o ProbeSelectorReplacement)
         IN  ReplaceAll(s2, Lits(<<":", "CHIP", ": ">>, 1), <<":">> \o ChipReplacement)
    ELSE inject_bash(s).script

\* C8: injection touches only the intended anchors; all other text, the text
\* that only contains an anchor inside a longer token included, is unchanged.
C8_OnlyAnchorsTouched ==
    Injected => output = AnchoredInjection(shell, name, baseline)

\* The body of a function of the script: what follows its "name() {".
UpToBrace(s, i) ==
    LET ends == {j \in i..Len(s) : s[j] = "}\n"}
    IN  IF ends = {} THEN SubSeq(s, i, Len(s))
        ELSE SubSeq(s, i, (CHOOSE x \in ends : \A y \in ends : x <= y) - 1)

FunctionBody(s, fname) ==
    LET at == {i \in 1..(Len(s) - 1) : s[i] = fname /\ s[i + 1] = "() {\n"}
    IN  IF at = {} THEN <<>> ELSE UpToBrace(s, (CHOOSE i \in at : TRUE) + 2)

\* What a completion function hands to _values when the program's callback
\* returned `lines`: Some(lines), or None when _values is not called.
ZshOffers(body, lines) ==
    LET guarded == \E i \in 1..(Len(body) - 3) :
                      /\ body[i] = "    if [ "
                      /\ body[i + 1] = "$"
                      /\ body[i + 2] = "{#array_of_lines[@]}"
                      /\ body[i + 3] = " -eq 0"
        called == \E i \in 1..Len(body) :
                      body[i] \in {"    _values 'flags' ", "        _values 'flags' "}
    IN  IF ~called THEN NoneOpt
        ELSE IF guarded /\ Len(lines) # 0 THEN NoneOpt
        ELSE Some(lines)

CandidateLists == {<<>>, <<"STM32F4">>, <<"STM32F4", "nRF52">>}

\* C9: the probe-list function feeds the lines the program returned to the
\* shell as completion values whenever there is at least one, as the chip-list
\* function does.
C9_ProbeListOffersCandidates ==
    (Injected /\ shell = "Zsh" /\ IsMatch(baseline, FallbackPattern(name))) =>
        \A lines \in CandidateLists :
            Len(lines) > 0 =>
                /\ ZshOffers(FunctionBody(output, "_probe-rs-cli_probe_list"), lines)
                       = Some(lines)
                /\ ZshOffers(FunctionBody(output, "_probe-rs-cli_chips_list"), lines)
                       = Some(lines)

\* The artifact the request asked for, whole.
ArtifactComplete ==
    CASE kind = "ChipList" -> output = JoinLines(MatchingVariants)
      [] kind = "ProbeList" -> Len(SplitLines(output)) = Len(MatchingProbes)
      [] kind = "GenerateScript" -> output = script

\* C10: standard output receives nothing until the artifact is complete: a
\* call that ends in an error has written nothing, and a successful call has
\* written once, the whole artifact, as its last step.
C10_OutputOnlyOnSuccess ==
    /\ result \notin {"Running", "Ok"} => stdout = <<>>
    /\ pc # "done" => stdout = <<>>
    /\ stdout # <<>> =>
          /\ result = "Ok"
          /\ Len(stdout) = 1
          /\ stdout[1] = output \o <<"\n">>
          /\ output = script
          /\ ArtifactComplete
    /\ result = "Ok" =>
          /\ Len(stdout) = 1
          /\ effects[Len(effects)] = "println"
          /\ \A i \in 1..(Len(effects) - 1) : effects[i] # "println"

C10_Witness ==
    /\ pc = "done"
    /\ result = "IoError"
    /\ script # <<>>
    /\ stdout = <<>>

====
